---- MODULE Spec2Model ----
(***************************************************************************)
(* A model of the retrieval core of GeminiRAGChat: the in-memory           *)
(* VectorStore (services/vector_store.py) with its two parallel mappings,  *)
(* the embedding provider it calls, and the operations ingest              *)
(* (add_document_chunks), search, remove (remove_chunk) and clear.         *)
(***************************************************************************)
EXTENDS Integers, Sequences, FiniteSets, TLC

(***************************************************************************)
(* Bounds of the model.                                                    *)
(***************************************************************************)
\* how many distinct chunk identifiers exist (the code draws uuid4 strings)
NumIds == 2
\* how many calls can wait for the provider at the same time
NumProcs == 2
\* the longest batch handed to one add_document_chunks call
MaxBatch == 2
\* the largest top_k a search is called with
MaxTopK == 2

Ids == 1..NumIds
Procs == 1..NumProcs
TopKs == 1..MaxTopK

\* The texts that occur as chunk content, and those that occur as queries.
Texts == {"east", "north-east"}
Queries == Texts \cup {"west", "blank"}

\* The texts of the runs in which the provider does not keep to one length.
WideTexts == {"east", "up"}

\* The texts of the runs in which the provider answers with a zero vector.
ZeroTexts == {"east", "blank"}

\* similarity_threshold values, as exact rationals <<p, q>> = p/q with q > 0
DefaultThreshold == <<3, 10>>
Thresholds == {<<-1, 1>>, DefaultThreshold, <<3, 4>>}

\* Python's None, the value of self.dimension before the first embedding.
None == <<>>

Min(a, b) == IF a <= b THEN a ELSE b

(***************************************************************************)
(* The embedding provider: client.models.embed_content.  A call either     *)
(* fails (exception, or a response without embeddings/values) or returns   *)
(* the vector of the text; the configured model returns vectors of one     *)
(* fixed length.  The store does not depend on that: "up" is a text for    *)
(* which the provider answers with a longer vector.                        *)
(***************************************************************************)
EmbedOf(text) ==
    CASE text = "east"       -> <<1, 0>>
      [] text = "north-east" -> <<1, 1>>
      [] text = "west"       -> <<-1, 0>>
      [] text = "blank"      -> <<0, 0>>
      [] text = "up"         -> <<0, 0, 1>>

(***************************************************************************)
(* _cosine_similarity.  The score dot(a,b) / (|a| * |b|) is kept exactly   *)
(* as the pair [num |-> dot(a,b), den2 |-> |a|^2 * |b|^2]; den2 = 0 is the *)
(* floating-point NaN of a zero-norm vector.  np.dot raises ValueError on  *)
(* vectors of different lengths.                                           *)
(***************************************************************************)
RECURSIVE DotUpTo(_, _, _)
DotUpTo(a, b, n) == IF n = 0 THEN 0 ELSE DotUpTo(a, b, n - 1) + a[n] * b[n]

Dot(a, b) == DotUpTo(a, b, Len(a))

CosineRaises(a, b) == Len(a) # Len(b)

CosineSimilarity(a, b) == [num |-> Dot(a, b), den2 |-> Dot(a, a) * Dot(b, b)]

\* x |-> sign(x) * x^2, the monotone map under which scores are compared
SignedSquare(x) == IF x >= 0 THEN x * x ELSE -(x * x)

IsNaN(s) == s.den2 = 0

\* a comparison that an undefined score passes
ScoreGeThresholdNaNPasses(s, th) ==
    SignedSquare(s.num) * th[2] * th[2] >= SignedSquare(th[1]) * s.den2

\* similarity >= similarity_threshold (line 106); false for NaN
ScoreGeThreshold(s, th) ==
    /\ ~IsNaN(s)
    /\ SignedSquare(s.num) * th[2] * th[2] >= SignedSquare(th[1]) * s.den2

\* s1 > s2 for two defined scores
ScoreGt(s1, s2) == SignedSquare(s1.num) * s2.den2 > SignedSquare(s2.num) * s1.den2

ScoreEq(s1, s2) == SignedSquare(s1.num) * s2.den2 = SignedSquare(s2.num) * s1.den2

(***************************************************************************)
(* The store.  chunks is the dict chunk_id -> DocumentChunk (content and   *)
(* the embedding attribute); embeddings is the dict chunk_id -> vector,    *)
(* kept as the sequence of its items in the dict's insertion order, which  *)
(* is the order search iterates in; dimension is None or <<n>>.  last is   *)
(* the call that ended most recently, pend the calls that wait for the     *)
(* provider when calls run concurrently.  before is what a caller that has *)
(* just ingested one fragment under a fresh identifier knows of the store  *)
(* as it was: the identifier and the sizes of the two dicts.  chunker is    *)
(* the call of DocumentService that is splitting a text, if there is one:  *)
(* its arguments, the local variables of _create_chunks and its position.  *)
(* chat is the database of ChatService: the rows of conversation_sessions  *)
(* by session_id and the rows of conversation_messages in the order they   *)
(* were added.                                                             *)
(***************************************************************************)
VARIABLES chunks, embeddings, dimension, last, pend, before, chunker, chat

vars == <<chunks, embeddings, dimension, last, pend, before, chunker, chat>>

Store == [chunks |-> chunks, embeddings |-> embeddings, dimension |-> dimension]

EmbKeysOf(embs) == {embs[i].chunk_id : i \in 1..Len(embs)}

EmbKeys == EmbKeysOf(embeddings)

ChunkKeys == DOMAIN chunks

EmbIndex(embs, id) == CHOOSE i \in 1..Len(embs) : embs[i].chunk_id = id

\* self.chunks[chunk_id] = chunk
SetChunk(chs, id, chunk) == (id :> chunk) @@ chs

\* del self.chunks[chunk_id]
DelChunk(chs, id) == [k \in (DOMAIN chs) \ {id} |-> chs[k]]

\* self.embeddings[chunk_id] = embedding: an existing key keeps its place
SetEmbedding(embs, id, vec) ==
    IF id \in EmbKeysOf(embs)
    THEN [embs EXCEPT ![EmbIndex(embs, id)] = [chunk_id |-> id, vec |-> vec]]
    ELSE Append(embs, [chunk_id |-> id, vec |-> vec])

\* del self.embeddings[chunk_id], for a key that is present
DelEmbedding(embs, id) ==
    LET i == EmbIndex(embs, id)
    IN SubSeq(embs, 1, i - 1) \o SubSeq(embs, i + 1, Len(embs))

Init ==
    /\ chunks = <<>>
    /\ embeddings = <<>>
    /\ dimension = None
    /\ last = [op |-> "none"]
    /\ before = [op |-> "none"]
    /\ chunker = [pc |-> "idle"]
    /\ chat = [sessions |-> <<>>, messages |-> <<>>]
    /\ pend = [p \in Procs |-> [op |-> "idle"]]

(***************************************************************************)
(* add_document_chunks.  A batch is a sequence of DocumentChunk objects as *)
(* the chunker builds them: chunk_id, content, embedding = None.  oks[i]   *)
(* tells whether the provider call for the i-th chunk returns a vector.    *)
(***************************************************************************)
ChunkRecs == [chunk_id : Ids, content : Texts]

\* the batches of at most MaxBatch chunks of recs, no identifier twice
BatchesOver(recs) ==
    {b \in UNION {[1..n -> recs] : n \in 0..MaxBatch} :
        \A i, j \in 1..Len(b) : b[i].chunk_id = b[j].chunk_id => i = j}

Batches == BatchesOver(ChunkRecs)

WideBatches == BatchesOver([chunk_id : Ids, content : WideTexts])

ZeroBatches == BatchesOver([chunk_id : Ids, content : ZeroTexts])

\* line 41: self.chunks[chunk.chunk_id] = chunk, after which the provider is
\* called.  (The embedding attribute that line 62 sets on the chunk object
\* is read by no operation of the store and is not kept.)
AddChunkStore(st, chunk) ==
    [st EXCEPT !.chunks = SetChunk(st.chunks, chunk.chunk_id,
                                   [content |-> chunk.content])]

\* an ingest that sets the dimension at every embedding it stores
AddChunkEmbedSetsDimensionAlways(st, chunk, ok) ==
    LET vec == EmbedOf(chunk.content)
    IN IF ok
       THEN [st EXCEPT !.embeddings = SetEmbedding(st.embeddings, chunk.chunk_id, vec),
                       !.dimension = <<Len(vec)>>]
       ELSE st

\* lines 50-66, once the provider call has ended: a vector is stored and
\* fixes the dimension if none is set; a failure is swallowed
AddChunkEmbed(st, chunk, ok) ==
    LET vec == EmbedOf(chunk.content)
    IN IF ok
       THEN [st EXCEPT !.embeddings = SetEmbedding(st.embeddings, chunk.chunk_id, vec),
                       !.dimension = IF st.dimension = None THEN <<Len(vec)>>
                                     ELSE st.dimension]
       ELSE st

\* the body of the for loop, for one chunk
AddChunk(st, chunk, ok) == AddChunkEmbed(AddChunkStore(st, chunk), chunk, ok)

\* a loop that lets the first provider failure end the batch
RECURSIVE AddDocumentChunksAbort(_, _, _)
AddDocumentChunksAbort(st, batch, oks) ==
    IF batch = <<>> THEN st
    ELSE IF ~Head(oks) THEN AddChunk(st, Head(batch), FALSE)
    ELSE AddDocumentChunksAbort(AddChunk(st, Head(batch), TRUE),
                                Tail(batch), Tail(oks))

\* the whole loop; an empty batch returns at once with the store untouched
RECURSIVE AddDocumentChunks(_, _, _)
AddDocumentChunks(st, batch, oks) ==
    IF batch = <<>> THEN st
    ELSE AddDocumentChunks(AddChunk(st, Head(batch), Head(oks)),
                           Tail(batch), Tail(oks))

(***************************************************************************)
(* search                                                                  *)
(***************************************************************************)
\* a scoring loop that forgets the threshold test
RECURSIVE SimilaritiesNoThreshold(_, _, _)
SimilaritiesNoThreshold(embs, qe, th) ==
    IF embs = <<>> THEN <<>>
    ELSE <<[chunk_id |-> Head(embs).chunk_id,
            score |-> CosineSimilarity(qe, Head(embs).vec)]>>
         \o SimilaritiesNoThreshold(Tail(embs), qe, th)

\* the scoring loop over self.embeddings.items(), lines 101-107
RECURSIVE Similarities(_, _, _)
Similarities(embs, qe, th) ==
    IF embs = <<>> THEN <<>>
    ELSE LET s == CosineSimilarity(qe, Head(embs).vec)
         IN (IF ScoreGeThreshold(s, th)
             THEN <<[chunk_id |-> Head(embs).chunk_id, score |-> s]>>
             ELSE <<>>)
            \o Similarities(Tail(embs), qe, th)

\* insertion for an ascending sort
RECURSIVE InsertAsc(_, _)
InsertAsc(sorted, x) ==
    IF sorted = <<>> THEN <<x>>
    ELSE IF ScoreGt(Head(sorted).score, x.score) THEN <<x>> \o sorted
    ELSE <<Head(sorted)>> \o InsertAsc(Tail(sorted), x)

\* insertion that puts x before the entries of equal score
RECURSIVE InsertDescBeforeEqual(_, _)
InsertDescBeforeEqual(sorted, x) ==
    IF sorted = <<>> THEN <<x>>
    ELSE IF ~ScoreGt(Head(sorted).score, x.score) THEN <<x>> \o sorted
    ELSE <<Head(sorted)>> \o InsertDescBeforeEqual(Tail(sorted), x)

\* x, which follows every entry of sorted in the list being sorted, goes
\* behind the entries whose score is greater than or equal to its own
RECURSIVE InsertDesc(_, _)
InsertDesc(sorted, x) ==
    IF sorted = <<>> THEN <<x>>
    ELSE IF ScoreGt(x.score, Head(sorted).score) THEN <<x>> \o sorted
    ELSE <<Head(sorted)>> \o InsertDesc(Tail(sorted), x)

\* similarities.sort(key=score, reverse=True): Python's sort is stable, and
\* reverse=True keeps the original order of entries with equal keys
RECURSIVE SortDesc(_)
SortDesc(sims) ==
    IF sims = <<>> THEN <<>>
    ELSE InsertDesc(SortDesc(SubSeq(sims, 1, Len(sims) - 1)), sims[Len(sims)])

\* a slice that is one too long
TopKPlusOne(sims, top_k) == SubSeq(sims, 1, Min(top_k + 1, Len(sims)))

\* similarities[:top_k], for top_k >= 1
TopK(sims, top_k) == SubSeq(sims, 1, Min(top_k, Len(sims)))

\* a search that scores the stored embeddings whatever the provider call
\* for the query gave
SearchAfterProviderUnguarded(st, query, top_k, th, ok) ==
    LET qe == EmbedOf(query)
        top == TopK(SortDesc(Similarities(st.embeddings, qe, th)), top_k)
    IN [results |-> [i \in 1..Len(top) |->
                       [chunk_id |-> top[i].chunk_id,
                        content |-> st.chunks[top[i].chunk_id].content,
                        score |-> top[i].score]],
        called |-> TRUE, error |-> "none"]

\* lines 90-128, once the provider call for the query has ended; ok tells
\* whether it returned a vector.  Every exception raised inside the try
\* block is caught and turns the result into [].
SearchAfterProvider(st, query, top_k, th, ok) ==
    IF ~ok
    THEN [results |-> <<>>, called |-> TRUE, error |-> "provider"]
    ELSE LET qe == EmbedOf(query)
             top == TopK(SortDesc(Similarities(st.embeddings, qe, th)), top_k)
         IN IF \E i \in 1..Len(st.embeddings) :
                   CosineRaises(qe, st.embeddings[i].vec)
            THEN [results |-> <<>>, called |-> TRUE, error |-> "ValueError"]
            ELSE IF \E i \in 1..Len(top) : top[i].chunk_id \notin DOMAIN st.chunks
            THEN [results |-> <<>>, called |-> TRUE, error |-> "KeyError"]
            ELSE [results |-> [i \in 1..Len(top) |->
                                 [chunk_id |-> top[i].chunk_id,
                                  content |-> st.chunks[top[i].chunk_id].content,
                                  score |-> top[i].score]],
                  called |-> TRUE, error |-> "none"]

\* line 80: with self.chunks empty search returns [] before any provider call
SearchReturnsEarly(st) == DOMAIN st.chunks = {}

\* one whole search call on store st
Search(st, query, top_k, th, ok) ==
    IF SearchReturnsEarly(st)
    THEN [results |-> <<>>, called |-> FALSE, error |-> "none"]
    ELSE SearchAfterProvider(st, query, top_k, th, ok)

(***************************************************************************)
(* remove_chunk and clear                                                  *)
(***************************************************************************)
\* a remove that forgets the embedding entry
RemoveChunkKeepsEmbedding(st, id) ==
    IF id \in DOMAIN st.chunks
    THEN [store |-> [st EXCEPT !.chunks = DelChunk(st.chunks, id)],
          ret |-> "True"]
    ELSE [store |-> st, ret |-> "False"]

\* remove_chunk: the store it leaves and how it ends.  del on a key that
\* self.embeddings does not hold raises KeyError, after the chunk is gone.
RemoveChunk(st, id) ==
    IF id \in DOMAIN st.chunks
    THEN IF id \in EmbKeysOf(st.embeddings)
         THEN [store |-> [st EXCEPT !.chunks = DelChunk(st.chunks, id),
                                    !.embeddings = DelEmbedding(st.embeddings, id)],
               ret |-> "True"]
         ELSE [store |-> [st EXCEPT !.chunks = DelChunk(st.chunks, id)],
               ret |-> "KeyError"]
    ELSE [store |-> st, ret |-> "False"]

\* clear: both dicts emptied; self.dimension is not assigned
Clear(st) == [st EXCEPT !.chunks = <<>>, !.embeddings = <<>>]

(***************************************************************************)
(* get_stats                                                               *)
(***************************************************************************)
BytesPerFloat == 4

RECURSIVE TextBytes(_, _)
\* sum(len(chunk.content.encode('utf-8'))) over the chunks of the ids in S;
\* the contents are ASCII, one byte a character
TextBytes(chs, S) ==
    IF S = {} THEN 0
    ELSE LET id == CHOOSE x \in S : TRUE
         IN Len(chs[id].content) + TextBytes(chs, S \ {id})

\* _estimate_memory_usage, in bytes (the code divides by 1024 * 1024): 0.0
\* without embeddings, else the embeddings at the size of the first one
\* plus the text of all chunks
EstimateMemoryUsage(st) ==
    IF st.embeddings = <<>> THEN 0
    ELSE Len(st.embeddings) * (Len(st.embeddings[1].vec) * BytesPerFloat)
         + TextBytes(st.chunks, DOMAIN st.chunks)

\* get_chunk: dict.get, the chunk stored under the identifier or None
GetChunk(st, id) ==
    IF id \in DOMAIN st.chunks THEN st.chunks[id] ELSE None

\* get_stats: the dictionary it returns
GetStats(st) ==
    [total_chunks |-> Cardinality(DOMAIN st.chunks),
     embedding_dimension |-> st.dimension,
     model_name |-> "Gemini text-embedding-004",
     memory_usage_bytes |-> EstimateMemoryUsage(st)]

(***************************************************************************)
(* The calls, one at a time: a caller makes a call when no response is     *)
(* outstanding, the handler runs to its end, and the caller takes the      *)
(* response.  last records the call just made: its arguments, the provider *)
(* outcomes and how it ended.                                              *)
(***************************************************************************)
NoCall == [op |-> "none"]

SetStore(st) ==
    /\ chunks' = st.chunks
    /\ embeddings' = st.embeddings
    /\ dimension' = st.dimension

DoIngest(batch, oks) ==
    /\ last = NoCall
    /\ SetStore(AddDocumentChunks(Store, batch, oks))
    /\ last' = [op |-> "ingest", batch |-> batch, oks |-> oks]
    /\ before' = IF Len(batch) = 1 /\ batch[1].chunk_id \notin ChunkKeys \cup EmbKeys
                 THEN [op |-> "ingest", id |-> batch[1].chunk_id,
                       total_chunks |-> Cardinality(ChunkKeys),
                       total_embeddings |-> Len(embeddings)]
                 ELSE NoCall
    /\ UNCHANGED <<pend, chunker, chat>>

DoSearch(query, top_k, th, ok) ==
    LET r == Search(Store, query, top_k, th, ok)
    IN /\ last = NoCall
       /\ last' = [op |-> "search", query |-> query, top_k |-> top_k,
                   threshold |-> th, results |-> r.results,
                   called |-> r.called, failed |-> r.called /\ ~ok,
                   error |-> r.error]
       /\ before' = NoCall
       /\ UNCHANGED <<chunks, embeddings, dimension, pend, chunker, chat>>

DoRemove(id) ==
    LET r == RemoveChunk(Store, id)
    IN /\ last = NoCall
       /\ SetStore(r.store)
       /\ last' = [op |-> "remove", id |-> id,
                   had |-> id \in ChunkKeys, ret |-> r.ret,
                   before |-> IF before # NoCall /\ before.id = id
                              THEN before ELSE NoCall]
       /\ before' = NoCall
       /\ UNCHANGED <<pend, chunker, chat>>

\* get_chunk written with dict.pop in place of dict.get: the chunk is handed
\* out and leaves the store
DoGetPops(id) ==
    /\ last = NoCall
    /\ last' = [op |-> "get", id |-> id, had |-> id \in ChunkKeys,
                ret |-> GetChunk(Store, id)]
    /\ chunks' = [k \in ChunkKeys \ {id} |-> chunks[k]]
    /\ before' = NoCall
    /\ UNCHANGED <<embeddings, dimension, pend, chunker, chat>>

DoGet(id) ==
    /\ last = NoCall
    /\ last' = [op |-> "get", id |-> id, had |-> id \in ChunkKeys,
                ret |-> GetChunk(Store, id)]
    /\ before' = NoCall
    /\ UNCHANGED <<chunks, embeddings, dimension, pend, chunker, chat>>

DoClear ==
    /\ last = NoCall
    /\ SetStore(Clear(Store))
    /\ last' = [op |-> "clear"]
    /\ before' = NoCall
    /\ UNCHANGED <<pend, chunker, chat>>

DoStats ==
    /\ last = NoCall
    /\ last' = [op |-> "stats", stats |-> GetStats(Store)]
    /\ before' = NoCall
    /\ UNCHANGED <<chunks, embeddings, dimension, pend, chunker, chat>>

Return ==
    /\ last # NoCall
    /\ last' = NoCall
    /\ UNCHANGED <<chunks, embeddings, dimension, pend, before, chunker, chat>>

Next ==
    \/ \E batch \in Batches : \E oks \in [1..Len(batch) -> BOOLEAN] :
          DoIngest(batch, oks)
    \/ \E query \in Queries, top_k \in TopKs, th \in Thresholds, ok \in BOOLEAN :
          DoSearch(query, top_k, th, ok)
    \/ \E id \in Ids : DoRemove(id)
    \/ \E id \in Ids : DoGet(id)
    \/ DoClear
    \/ DoStats
    \/ Return

Spec == Init /\ [][Next]_vars

(***************************************************************************)
(* The same calls with a provider that does not keep to one length: the    *)
(* contents and the queries are drawn from WideTexts.                      *)
(***************************************************************************)
NextDim ==
    \/ \E batch \in WideBatches : \E oks \in [1..Len(batch) -> BOOLEAN] :
          DoIngest(batch, oks)
    \/ \E query \in WideTexts, top_k \in TopKs, ok \in BOOLEAN :
          DoSearch(query, top_k, DefaultThreshold, ok)
    \/ \E id \in Ids : DoRemove(id)
    \/ \E id \in Ids : DoGet(id)
    \/ DoClear
    \/ DoStats
    \/ Return

SpecDim == Init /\ [][NextDim]_vars

(***************************************************************************)
(* The same calls with a provider that answers "blank" with the zero       *)
(* vector: the contents and the queries are drawn from ZeroTexts.          *)
(***************************************************************************)
NextZero ==
    \/ \E batch \in ZeroBatches : \E oks \in [1..Len(batch) -> BOOLEAN] :
          DoIngest(batch, oks)
    \/ \E query \in ZeroTexts, top_k \in TopKs, th \in Thresholds, ok \in BOOLEAN :
          DoSearch(query, top_k, th, ok)
    \/ \E id \in Ids : DoRemove(id)
    \/ \E id \in Ids : DoGet(id)
    \/ DoClear
    \/ DoStats
    \/ Return

SpecZero == Init /\ [][NextZero]_vars

(***************************************************************************)
(* Concurrent calls on the one shared store.  The store takes no lock.  A  *)
(* call runs without interruption from one provider call to the next; the  *)
(* provider calls are the points where it is suspended and other calls     *)
(* run.  remove_chunk and clear call no provider.  Searches come with the  *)
(* default similarity_threshold, as the API handlers make them.            *)
(***************************************************************************)
Idle == [op |-> "idle"]

\* add_document_chunks is entered with a non-empty batch: the first chunk is
\* stored and its provider call begins
CIngestBegin(p, batch) ==
    /\ pend[p] = Idle
    /\ batch # <<>>
    /\ SetStore(AddChunkStore(Store, batch[1]))
    /\ pend' = [pend EXCEPT ![p] = [op |-> "ingest", batch |-> batch, i |-> 1]]
    /\ UNCHANGED <<last, before, chunker, chat>>

\* the provider call of an ingest ends: the embedding is stored or the
\* failure swallowed, then the next chunk is stored and its provider call
\* begins, or the call returns
CIngestProvider(p, ok) ==
    /\ pend[p].op = "ingest"
    /\ LET batch == pend[p].batch
           i == pend[p].i
           st == AddChunkEmbed(Store, batch[i], ok)
       IN IF i < Len(batch)
          THEN /\ SetStore(AddChunkStore(st, batch[i + 1]))
               /\ pend' = [pend EXCEPT ![p].i = i + 1]
               /\ UNCHANGED last
          ELSE /\ SetStore(st)
               /\ pend' = [pend EXCEPT ![p] = Idle]
               /\ last' = [op |-> "ingest", batch |-> batch]
    /\ UNCHANGED <<before, chunker, chat>>

\* search is entered: it returns [] at once on an empty self.chunks, or its
\* provider call begins
CSearchBegin(p, query, top_k, th) ==
    /\ pend[p] = Idle
    /\ IF SearchReturnsEarly(Store)
       THEN /\ last' = [op |-> "search", query |-> query, top_k |-> top_k,
                        threshold |-> th, results |-> <<>>,
                        called |-> FALSE, failed |-> FALSE,
                        error |-> "none"]
            /\ UNCHANGED pend
       ELSE /\ pend' = [pend EXCEPT ![p] = [op |-> "search", query |-> query,
                                            top_k |-> top_k, threshold |-> th]]
            /\ UNCHANGED last
    /\ UNCHANGED <<chunks, embeddings, dimension, before, chunker, chat>>

\* the provider call of a search ends: scoring, sorting and the look-up of
\* the chunks of the best results run on the store as it is now
CSearchProvider(p, ok) ==
    /\ pend[p].op = "search"
    /\ LET c == pend[p]
           r == SearchAfterProvider(Store, c.query, c.top_k, c.threshold, ok)
       IN last' = [op |-> "search", query |-> c.query, top_k |-> c.top_k,
                   threshold |-> c.threshold, results |-> r.results,
                   called |-> r.called, failed |-> ~ok, error |-> r.error]
    /\ pend' = [pend EXCEPT ![p] = Idle]
    /\ UNCHANGED <<chunks, embeddings, dimension, before, chunker, chat>>

CRemove(id) ==
    LET r == RemoveChunk(Store, id)
    IN /\ SetStore(r.store)
       /\ last' = [op |-> "remove", id |-> id,
                   had |-> id \in ChunkKeys, ret |-> r.ret]
       /\ UNCHANGED <<pend, before, chunker, chat>>

CClear ==
    /\ SetStore(Clear(Store))
    /\ last' = [op |-> "clear"]
    /\ UNCHANGED <<pend, before, chunker, chat>>

NextConc ==
    \/ \E p \in Procs, batch \in Batches : CIngestBegin(p, batch)
    \/ \E p \in Procs, ok \in BOOLEAN : CIngestProvider(p, ok)
    \/ \E p \in Procs, query \in Texts, top_k \in TopKs :
          CSearchBegin(p, query, top_k, DefaultThreshold)
    \/ \E p \in Procs, ok \in BOOLEAN : CSearchProvider(p, ok)
    \/ \E id \in Ids : CRemove(id)
    \/ CClear

SpecConc == Init /\ [][NextConc]_vars

(***************************************************************************)
(* DocumentService: process_document and _create_chunks.  A text is the    *)
(* sequence of its characters; a letter, the space and the full stop stand *)
(* for the characters the code tells apart.  chunk_size and chunk_overlap  *)
(* are attributes of the service that _create_chunks reads at every use    *)
(* (1000 and 200 as __init__ sets them); the runs take them from Configs,  *)
(* small configurations; [5, 1] has the proportions of the values that     *)
(* __init__ sets.                                                          *)
(***************************************************************************)
MaxTextLen == 8

Chars == {"a", " ", "."}

DocTexts == UNION {[1..n -> Chars] : n \in 0..MaxTextLen}

Configs ==
    {[chunk_size |-> 5, chunk_overlap |-> 1],
     [chunk_size |-> 7, chunk_overlap |-> 2],
     [chunk_size |-> 4, chunk_overlap |-> 0],
     [chunk_size |-> 4, chunk_overlap |-> 3],
     [chunk_size |-> 2, chunk_overlap |-> 2]}

\* the fragments one call may emit before the run is cut off
MaxChunks == MaxTextLen + 2

Max(a, b) == IF a >= b THEN a ELSE b

\* a slice index as Python reads it on a sequence of length n
SliceIndex(i, n) == IF i < 0 THEN Max(i + n, 0) ELSE Min(i, n)

\* t[a:b], with indices from 0, negative indices counted from the end
PySlice(t, a, b) ==
    LET lo == SliceIndex(a, Len(t))
        hi == SliceIndex(b, Len(t))
    IN IF lo >= hi THEN <<>> ELSE SubSeq(t, lo + 1, hi)

\* t.rfind(c): the index from 0 of the last c in t, -1 if there is none
RFind(t, c) ==
    LET at == {i \in 1..Len(t) : t[i] = c}
    IN IF at = {} THEN -1
       ELSE (CHOOSE i \in at : \A j \in at : j <= i) - 1

\* t.strip()
Strip(t) ==
    LET at == {i \in 1..Len(t) : t[i] # " "}
    IN IF at = {} THEN <<>>
       ELSE SubSeq(t, CHOOSE i \in at : \A j \in at : i <= j,
                      CHOOSE i \in at : \A j \in at : j <= i)

\* index > self.chunk_size * 0.7 (lines 125, 131)
BeyondSeventyPercent(index, chunk_size) == 10 * index > 7 * chunk_size

\* lines 113-133: the end of the chunk that starts at start in a text of
\* length len, given what rfind returned for the window.  The window is
\* cut back only if it ends before the end of the text.
CutEnd(start, chunk_size, len, sentence_end, last_space) ==
    IF start + chunk_size < len
    THEN IF BeyondSeventyPercent(sentence_end, chunk_size)
         THEN start + sentence_end + 1
         ELSE IF BeyondSeventyPercent(last_space, chunk_size)
         THEN start + last_space
         ELSE start + chunk_size
    ELSE start + chunk_size

\* a cursor that moves back by twice the overlap
NextStartDoubleOverlap(end, chunk_overlap) == end - 2 * chunk_overlap

\* a cursor that moves forward by the overlap
NextStartPastEnd(end, chunk_overlap) == end + chunk_overlap

\* line 151: start = end - self.chunk_overlap
NextStart(end, chunk_overlap) == end - chunk_overlap

\* lines 113-146: the chunk one iteration of the loop emits
ChunkAt(text, start, chunk_size, chunk_number) ==
    LET window == PySlice(text, start, start + chunk_size)
        last_period == RFind(window, ".")
        last_exclamation == RFind(window, "!")
        last_question == RFind(window, "?")
        sentence_end == Max(last_period, Max(last_exclamation, last_question))
        last_space == RFind(window, " ")
        end == CutEnd(start, chunk_size, Len(text), sentence_end, last_space)
        chunk_text == IF end = start + chunk_size THEN window
                      ELSE PySlice(window, 0, end - start)
    IN [content |-> Strip(chunk_text), chunk_number |-> chunk_number,
        start_char |-> start, end_char |-> end]

\* process_document, after the text is extracted: a text that is empty
\* after strip() is answered with status 400, any other text goes to
\* _create_chunks, which sets up its loop
ProcessDocument(text, config) ==
    /\ chunker.pc = "idle"
    /\ chunker' = IF Strip(text) = <<>>
                  THEN [pc |-> "error400"]
                  ELSE [pc |-> IF 0 < Len(text) THEN "loop" ELSE "done",
                        text |-> text,
                        chunk_size |-> config.chunk_size,
                        chunk_overlap |-> config.chunk_overlap,
                        start |-> 0, chunks |-> <<>>]
    /\ UNCHANGED <<chunks, embeddings, dimension, last, pend, before, chat>>

\* one iteration of the while loop of _create_chunks: a chunk is appended,
\* start is moved, and the loop goes on while start < len(text)
CreateChunksStep ==
    /\ chunker.pc = "loop"
    /\ Len(chunker.chunks) < MaxChunks
    /\ LET chunk == ChunkAt(chunker.text, chunker.start, chunker.chunk_size,
                            Len(chunker.chunks))
           start == NextStart(chunk.end_char, chunker.chunk_overlap)
       IN chunker' = [chunker EXCEPT
                         !.chunks = Append(@, chunk),
                         !.start = start,
                         !.pc = IF start >= Len(chunker.text)
                                THEN "done" ELSE "loop"]
    /\ UNCHANGED <<chunks, embeddings, dimension, last, pend, before, chat>>

\* process_document returns the chunks or the error to its caller
ProcessDocumentReturn ==
    /\ chunker.pc \in {"done", "error400"}
    /\ chunker' = [pc |-> "idle"]
    /\ UNCHANGED <<chunks, embeddings, dimension, last, pend, before, chat>>

\* a document is uploaded
UploadDocument ==
    /\ chunker.pc = "idle"
    /\ \E text \in DocTexts, config \in Configs : ProcessDocument(text, config)

NextChunk ==
    \/ UploadDocument
    \/ CreateChunksStep
    \/ ProcessDocumentReturn

SpecChunk == Init /\ [][NextChunk]_vars

(***************************************************************************)
(* _create_chunks on texts too long to write out: a text is kept by its    *)
(* length, and every iteration draws what rfind returns for the window.    *)
(* With chunk_size 100 and chunk_overlap 20 a window begins at least 51    *)
(* characters after the one before, and the test of line 125 reads only    *)
(* the characters beyond 70% of the window, which lie beyond the end of    *)
(* every earlier window: the draws of different iterations are about       *)
(* different characters, so every sequence of draws is a text.             *)
(***************************************************************************)
MaxScanLen == 210

ScanConfig == [chunk_size |-> 100, chunk_overlap |-> 20]

\* what rfind may return for a window, as far as lines 125 and 131 tell the
\* values apart: -1 and the index at 70% of the window fail the test, every
\* later index passes it
WindowIndexes(chunk_size) ==
    {-1} \cup {i \in 0..(chunk_size - 1) : 10 * i >= 7 * chunk_size}

\* process_document passes a text of length len that is not empty after
\* strip() to _create_chunks
ScanDocument(len) ==
    /\ chunker.pc = "idle"
    /\ chunker' = [pc |-> "scan", length |-> len,
                   chunk_size |-> ScanConfig.chunk_size,
                   chunk_overlap |-> ScanConfig.chunk_overlap,
                   start |-> 0, iterations |-> 0, window |-> None]
    /\ UNCHANGED <<chunks, embeddings, dimension, last, pend, before, chat>>

\* one iteration of the while loop, rfind having returned sentence_end and
\* last_space; window keeps the start, the draws and the end of the latest
\* iteration
ScanStep(sentence_end, last_space) ==
    /\ chunker.pc = "scan"
    /\ chunker.iterations < chunker.length
    /\ LET end == CutEnd(chunker.start, chunker.chunk_size, chunker.length,
                         sentence_end, last_space)
           start == NextStart(end, chunker.chunk_overlap)
       IN chunker' = [chunker EXCEPT
                         !.start = start,
                         !.iterations = @ + 1,
                         !.window = [start |-> chunker.start,
                                     sentence_end |-> sentence_end,
                                     last_space |-> last_space,
                                     end |-> end],
                         !.pc = IF start >= chunker.length
                                THEN "scanned" ELSE "scan"]
    /\ UNCHANGED <<chunks, embeddings, dimension, last, pend, before, chat>>

\* the iteration with its draws: rfind is called only for a window that
\* ends before the end of the text, and for the space only if the test for
\* the sentence end failed; no character is both a terminator and a space
ScanWindow ==
    /\ chunker.pc = "scan"
    /\ IF chunker.start + chunker.chunk_size < chunker.length
       THEN \E sentence_end \in WindowIndexes(chunker.chunk_size) :
               IF BeyondSeventyPercent(sentence_end, chunker.chunk_size)
               THEN ScanStep(sentence_end, -1)
               ELSE \E last_space \in WindowIndexes(chunker.chunk_size) :
                       /\ last_space # -1 => last_space # sentence_end
                       /\ ScanStep(sentence_end, last_space)
       ELSE ScanStep(-1, -1)

ScanReturn ==
    /\ chunker.pc = "scanned"
    /\ chunker' = [pc |-> "idle"]
    /\ UNCHANGED <<chunks, embeddings, dimension, last, pend, before, chat>>

ScanUpload ==
    /\ chunker.pc = "idle"
    /\ \E len \in 1..MaxScanLen : ScanDocument(len)

NextScan ==
    \/ ScanUpload
    \/ ScanWindow
    \/ ScanReturn

SpecScan == Init /\ [][NextScan]_vars

(***************************************************************************)
(* ChatService: the conversation sessions and their messages, kept in the  *)
(* database.  A row of conversation_sessions is created by create_session  *)
(* and is never deleted; clear_session marks it inactive.  The rows of     *)
(* conversation_messages are kept in the order they were added, which is   *)
(* the order of their timestamps.  The calls are made one at a time, as    *)
(* the calls of the store are.                                             *)
(***************************************************************************)
MaxMessages == 2

SessionIds == {"s1", "s2"}
\* the session_id of a request that names no session
NoSessionId == ""
Roles == {"user", "assistant"}
Contents == {"hello"}

SessionKeys == DOMAIN chat.sessions

\* the messages of a session, in the order they were added
RECURSIVE MessagesOf(_, _)
MessagesOf(msgs, session_id) ==
    IF msgs = <<>> THEN <<>>
    ELSE IF Head(msgs).session_id = session_id
         THEN <<Head(msgs)>> \o MessagesOf(Tail(msgs), session_id)
         ELSE MessagesOf(Tail(msgs), session_id)

\* the messages of all other sessions: what the DELETE of clear_session keeps
RECURSIVE MessagesNotOf(_, _)
MessagesNotOf(msgs, session_id) ==
    IF msgs = <<>> THEN <<>>
    ELSE IF Head(msgs).session_id = session_id
         THEN MessagesNotOf(Tail(msgs), session_id)
         ELSE <<Head(msgs)>> \o MessagesNotOf(Tail(msgs), session_id)

\* create_session from the query on: a row is inserted, active, only if the
\* table holds no row of that session_id, active or not
CreateSession(c, session_id) ==
    IF session_id \in DOMAIN c.sessions THEN c
    ELSE [c EXCEPT !.sessions =
              (session_id :> [is_active |-> TRUE]) @@ c.sessions]

\* add_message: create_session, then the insertion of the message
AddMessage(c, session_id, role, content) ==
    LET c1 == CreateSession(c, session_id)
    IN [c1 EXCEPT !.messages =
            Append(@, [session_id |-> session_id, role |-> role,
                       content |-> content])]

\* clear_session without the test of the row: it answers True for a session
\* that was never created
ClearSessionNoRowTest(c, session_id) ==
    [chat |-> [sessions |-> [k \in DOMAIN c.sessions |->
                                 IF k = session_id THEN [is_active |-> FALSE]
                                 ELSE c.sessions[k]],
               messages |-> MessagesNotOf(c.messages, session_id)],
     ret |-> "True"]

\* clear_session: False without a row of that session_id; else the messages
\* of the session are deleted, the row is marked inactive and it is True
ClearSession(c, session_id) ==
    IF session_id \notin DOMAIN c.sessions
    THEN [chat |-> c, ret |-> "False"]
    ELSE [chat |-> [sessions |-> [c.sessions EXCEPT
                                      ![session_id].is_active = FALSE],
                    messages |-> MessagesNotOf(c.messages, session_id)],
          ret |-> "True"]

\* session_exists: a row of that session_id that is active
SessionExists(c, session_id) ==
    /\ session_id \in DOMAIN c.sessions
    /\ c.sessions[session_id].is_active

\* max_context_messages, as __init__ sets it
max_context_messages == 10

\* the rows of a session among the first n rows of the table, oldest first,
\* each row named by its place in the table
RECURSIVE RowsOfUpTo(_, _, _)
RowsOfUpTo(msgs, session_id, n) ==
    IF n = 0 THEN <<>>
    ELSE LET r == RowsOfUpTo(msgs, session_id, n - 1)
         IN IF msgs[n].session_id = session_id THEN Append(r, n) ELSE r

RowsOf(msgs, session_id) == RowsOfUpTo(msgs, session_id, Len(msgs))

\* list.reverse()
Reverse(s) == [i \in 1..Len(s) |-> s[Len(s) + 1 - i]]

\* LIMIT n
Limit(s, n) == SubSeq(s, 1, Min(n, Len(s)))

\* the query without the descending order: LIMIT keeps the oldest rows
ContextRowsOldest(c, session_id) ==
    Limit(RowsOf(c.messages, session_id), max_context_messages)

\* get_context_for_llm, lines 136-141: the rows of the session by timestamp
\* descending, the first max_context_messages of them, reversed.  A row's
\* timestamp is the utcnow() of its add_message, so the rows by timestamp
\* are the rows in the order they were added.
ContextRows(c, session_id) ==
    Reverse(Limit(Reverse(RowsOf(c.messages, session_id)),
                  max_context_messages))

\* get_context_for_llm: the role and the content of each of these rows
GetContextForLlm(c, session_id) ==
    LET rows == ContextRows(c, session_id)
    IN [i \in 1..Len(rows) |-> [role |-> c.messages[rows[i]].role,
                                content |-> c.messages[rows[i]].content]]

\* create_session(session_id): without an argument the identifier is a new
\* uuid4, one that no row holds
DoCreateSession(arg, uuid) ==
    /\ last = NoCall
    /\ arg = NoSessionId => uuid \notin SessionKeys
    /\ LET session_id == IF arg = NoSessionId THEN uuid ELSE arg
       IN /\ chat' = CreateSession(chat, session_id)
          /\ last' = [op |-> "create_session", arg |-> arg, ret |-> session_id]
    /\ UNCHANGED <<chunks, embeddings, dimension, pend, before, chunker>>

DoAddMessage(session_id, role, content) ==
    /\ last = NoCall
    /\ chat' = AddMessage(chat, session_id, role, content)
    /\ last' = [op |-> "add_message", id |-> session_id, role |-> role]
    /\ UNCHANGED <<chunks, embeddings, dimension, pend, before, chunker>>

DoClearSession(session_id) ==
    LET r == ClearSession(chat, session_id)
    IN /\ last = NoCall
       /\ chat' = r.chat
       /\ last' = [op |-> "clear_session", id |-> session_id,
                   known |-> session_id \in SessionKeys,
                   existed |-> SessionExists(chat, session_id),
                   ret |-> r.ret]
       /\ UNCHANGED <<chunks, embeddings, dimension, pend, before, chunker>>

DoSessionExists(session_id) ==
    /\ last = NoCall
    /\ last' = [op |-> "session_exists", id |-> session_id,
                ret |-> SessionExists(chat, session_id)]
    /\ UNCHANGED <<chunks, embeddings, dimension, pend, before, chunker, chat>>

DoGetContextForLlm(session_id) ==
    /\ last = NoCall
    /\ last' = [op |-> "get_context_for_llm", id |-> session_id,
                rows |-> ContextRows(chat, session_id),
                ret |-> GetContextForLlm(chat, session_id)]
    /\ UNCHANGED <<chunks, embeddings, dimension, pend, before, chunker, chat>>

NextChat ==
    \/ \E arg \in SessionIds \cup {NoSessionId}, uuid \in SessionIds :
          DoCreateSession(arg, uuid)
    \/ /\ Len(chat.messages) < MaxMessages
       /\ \E session_id \in SessionIds, role \in Roles, content \in Contents :
             DoAddMessage(session_id, role, content)
    \/ \E session_id \in SessionIds : DoClearSession(session_id)
    \/ \E session_id \in SessionIds : DoSessionExists(session_id)
    \/ Return

SpecChat == Init /\ [][NextChat]_vars

(***************************************************************************)
(* Conversations longer than max_context_messages: two sessions whose      *)
(* messages come in any interleaving, each session taking a user message   *)
(* and an assistant message in turn, as send_message adds them.            *)
(***************************************************************************)
MaxHistory == 12

\* the role of the next message of a session
NextRole(session_id) ==
    LET rows == RowsOf(chat.messages, session_id)
    IN IF rows # <<>> /\ chat.messages[rows[Len(rows)]].role = "user"
       THEN "assistant" ELSE "user"

NextContext ==
    \/ /\ Len(chat.messages) < MaxHistory
       /\ \E session_id \in SessionIds, content \in Contents :
             DoAddMessage(session_id, NextRole(session_id), content)
    \/ \E session_id \in SessionIds : DoGetContextForLlm(session_id)
    \/ Return

SpecContext == Init /\ [][NextContext]_vars

(***************************************************************************)
(* POST /message: send_message, the whole handler.  The answer of the      *)
(* model is a text, an empty response (generate_response then returns its  *)
(* apology) or an error, which generate_response raises again and the      *)
(* handler turns into status 500 after the user message was stored.        *)
(***************************************************************************)
MaxSendRows == 4

LookupBatches == BatchesOver([chunk_id : Ids, content : {"east"}])

SendTexts == {"east"}
LlmOutcomes == {"text", "empty", "raises"}

\* search_documents is called with top_k=3 (line 53)
SendTopK == 3

\* generate_response, lines 57-87: the contents given to generate_content.
\* Each turn of the history becomes a Content of role "user" or "model";
\* the last Content is the user message, with the text of the RAG context
\* before it (context holds the contents of the results it is built from).
GenerateContents(user_message, conversation_history, rag_context) ==
    [i \in 1..Len(conversation_history) |->
        [role |-> IF conversation_history[i].role = "user"
                  THEN "user" ELSE "model",
         context |-> <<>>,
         text |-> conversation_history[i].content]]
    \o <<[role |-> "user",
          context |-> [i \in 1..Len(rag_context) |-> rag_context[i].content],
          text |-> user_message]>>

\* lines 100-103: the text of the response, or the apology
ResponseText(llm) ==
    IF llm = "text" THEN "reply" ELSE "I apologize"

DoSendMessage(arg, uuid, message, use_rag, ok, llm) ==
    /\ last = NoCall
    /\ arg = NoSessionId => uuid \notin SessionKeys
    /\ LET session_id == IF arg = NoSessionId THEN uuid ELSE arg
           c1 == AddMessage(CreateSession(chat, session_id),
                            session_id, "user", message)
           conversation_history == GetContextForLlm(c1, session_id)
           rag_context ==
               IF use_rag
               THEN Search(Store, message, SendTopK, DefaultThreshold, ok).results
               ELSE <<>>
           contents == GenerateContents(message, conversation_history,
                                        rag_context)
       IN /\ chat' = IF llm = "raises" THEN c1
                     ELSE AddMessage(c1, session_id, "assistant",
                                     ResponseText(llm))
          /\ last' = [op |-> "send_message", id |-> session_id,
                      message |-> message,
                      user_row |-> Len(c1.messages),
                      rows |-> ContextRows(c1, session_id),
                      contents |-> contents,
                      status |-> IF llm = "raises" THEN 500 ELSE 200]
    /\ before' = NoCall
    /\ UNCHANGED <<chunks, embeddings, dimension, pend, chunker>>

NextSend ==
    \/ \E batch \in LookupBatches : \E oks \in [1..Len(batch) -> BOOLEAN] :
          DoIngest(batch, oks)
    \/ /\ Len(chat.messages) + 2 <= MaxSendRows
       /\ \E arg \in SessionIds \cup {NoSessionId}, uuid \in SessionIds,
             message \in SendTexts, use_rag \in BOOLEAN, ok \in BOOLEAN,
             llm \in LlmOutcomes :
                DoSendMessage(arg, uuid, message, use_rag, ok, llm)
    \/ \E session_id \in SessionIds : DoClearSession(session_id)
    \/ Return

SpecSend == Init /\ [][NextSend]_vars

(***************************************************************************)
(* The lookups by identifier of the store and of the chat service, with    *)
(* the calls that bring identifiers into being: fragments of one content   *)
(* are ingested and user messages are added.                               *)
(***************************************************************************)
NextLookup ==
    \/ \E batch \in LookupBatches : \E oks \in [1..Len(batch) -> BOOLEAN] :
          DoIngest(batch, oks)
    \/ \E id \in Ids : DoGet(id)
    \/ \E id \in Ids : DoRemove(id)
    \/ /\ Len(chat.messages) < MaxMessages
       /\ \E session_id \in SessionIds, content \in Contents :
             DoAddMessage(session_id, "user", content)
    \/ \E session_id \in SessionIds : DoClearSession(session_id)
    \/ Return

SpecLookup == Init /\ [][NextLookup]_vars

(***************************************************************************)
(* Properties of the calls made one at a time (Spec).                      *)
(***************************************************************************)
EmbVec(id) == embeddings[EmbIndex(embeddings, id)].vec

\* the score search computes for the stored embedding of id
QueryScore(query, id) == CosineSimilarity(EmbedOf(query), EmbVec(id))

\* the identifiers that hold an embedding scoring >= th against the query
Eligible(query, th) ==
    {id \in EmbKeys : ScoreGeThreshold(QueryScore(query, id), th)}

ResultIds(results) == {results[i].chunk_id : i \in 1..Len(results)}

\* C1: after any sequence of ingest (with any mix of provider successes and
\* failures), remove and clear calls made one at a time, every identifier
\* in the embedding mapping is also in the content mapping.
C1_EmbeddingKeysHaveContent == EmbKeys \subseteq ChunkKeys

\* a remove of a fragment stored without embedding, next to an embedded one
C1_Witness ==
    /\ last.op = "remove"
    /\ last.ret = "KeyError"
    /\ EmbKeys # {}

\* C3: remove(id) of a stored id returns true and leaves no entry for id in
\* either mapping, also when id was stored without an embedding.
C3_RemoveDeletesBothAndReturnsTrue ==
    (last.op = "remove" /\ last.had) =>
        /\ last.ret = "True"
        /\ last.id \notin ChunkKeys
        /\ last.id \notin EmbKeys

\* C4: after clear() both mappings are empty and the dimension is unset.
C4_ClearUnsetsDimension ==
    last.op = "clear" =>
        /\ ChunkKeys = {}
        /\ embeddings = <<>>
        /\ dimension = None

\* C5: whatever the pattern of provider failures in a batch, after ingest
\* every fragment of the batch has its content stored under its identifier
\* and every fragment whose provider call succeeded has its embedding
\* stored, the fragments after a failed one included.
C5_IngestStoresEveryFragment ==
    last.op = "ingest" =>
        \A i \in 1..Len(last.batch) :
            LET c == last.batch[i]
            IN /\ c.chunk_id \in ChunkKeys
               /\ chunks[c.chunk_id].content = c.content
               /\ last.oks[i] =>
                     /\ c.chunk_id \in EmbKeys
                     /\ EmbVec(c.chunk_id) = EmbedOf(c.content)

\* a batch whose first provider call fails and whose second succeeds
C5_Witness ==
    /\ last.op = "ingest"
    /\ Len(last.batch) >= 2
    /\ ~last.oks[1]
    /\ last.oks[2]
    /\ last.batch[1].chunk_id \notin EmbKeys

\* C6: when the query is embedded, the result of search is exactly the
\* up-to-top_k highest-scoring fragments among those that hold an embedding
\* scoring >= similarity_threshold, each with its own content and score; a
\* fragment without an embedding is in no result.
C6_SearchAnswersOverEmbeddedSubset ==
    (last.op = "search" /\ last.error # "provider") =>
        LET res == last.results
            E == Eligible(last.query, last.threshold)
            R == ResultIds(res)
        IN /\ R \subseteq E
           /\ Len(res) = Min(last.top_k, Cardinality(E))
           /\ Cardinality(R) = Len(res)
           /\ \A r \in R : \A e \in E \ R :
                 ~ScoreGt(QueryScore(last.query, e), QueryScore(last.query, r))
           /\ \A i \in 1..Len(res) :
                 /\ res[i].score = QueryScore(last.query, res[i].chunk_id)
                 /\ res[i].content = chunks[res[i].chunk_id].content

\* a search that answers from a store holding a fragment without embedding
C6_Witness ==
    /\ last.op = "search"
    /\ ChunkKeys \ EmbKeys # {}
    /\ Len(last.results) >= 1

\* C7: the results of search are in descending order of score and none of
\* them scores below similarity_threshold.
C7_ResultsSortedAndAboveThreshold ==
    last.op = "search" =>
        LET res == last.results
        IN /\ \A i \in 1..Len(res) : ScoreGeThreshold(res[i].score, last.threshold)
           /\ \A i, j \in 1..Len(res) :
                 i < j => ~ScoreGt(res[j].score, res[i].score)

\* two results of different score, the second-indexed embedding first
C7_Witness ==
    /\ last.op = "search"
    /\ Len(last.results) = 2
    /\ ScoreGt(last.results[1].score, last.results[2].score)
    /\ last.results[1].chunk_id = embeddings[2].chunk_id

\* C8: search with top_k = k >= 1 returns at most k results.
C8_AtMostTopK == last.op = "search" => Len(last.results) <= last.top_k

\* more eligible fragments than top_k, and exactly top_k results
C8_Witness ==
    /\ last.op = "search"
    /\ Cardinality(Eligible(last.query, last.threshold)) > last.top_k
    /\ Len(last.results) = last.top_k

\* C9: results of equal score come in the order in which their embeddings
\* entered the index (the insertion order of the embedding mapping).
C9_TiesInInsertionOrder ==
    last.op = "search" =>
        LET res == last.results
        IN \A i, j \in 1..Len(res) :
              (i < j /\ ScoreEq(res[i].score, res[j].score)) =>
                  EmbIndex(embeddings, res[i].chunk_id)
                      < EmbIndex(embeddings, res[j].chunk_id)

\* two results of equal score whose insertion order is not the order of ids
C9_Witness ==
    /\ last.op = "search"
    /\ Len(last.results) = 2
    /\ ScoreEq(last.results[1].score, last.results[2].score)
    /\ last.results[1].chunk_id > last.results[2].chunk_id

\* C10: when the store holds no embeddings, search returns an empty
\* sequence and makes no provider call.
C10_NoEmbeddingsNoProviderCall ==
    (last.op = "search" /\ embeddings = <<>>) =>
        /\ last.results = <<>>
        /\ ~last.called

\* C11: when the provider call for the query of a search fails, the search
\* ends with the empty sequence and no error reaches the caller, whatever
\* the store holds.
C11_ProviderFailureGivesEmpty ==
    (last.op = "search" /\ last.failed) =>
        /\ last.results = <<>>
        /\ last.error = "provider"

\* a search whose provider call failed on a store that holds an embedding
\* the query would have matched
C11_Witness ==
    /\ last.op = "search"
    /\ last.failed
    /\ Eligible(last.query, last.threshold) # {}

\* C12: the report of stats holds the number of stored fragments and the
\* number of stored embeddings, each the current size of its mapping, so
\* that after failed embedding calls the two differ by the number of
\* fragments without an embedding.
C12_StatsReportsBothCounts ==
    last.op = "stats" =>
        /\ last.stats.total_chunks = Cardinality(ChunkKeys)
        /\ "embedding_count" \in DOMAIN last.stats
        /\ last.stats.embedding_count = Len(embeddings)

\* C13: ingesting one fragment under a fresh identifier and removing it by
\* that identifier in the next call leaves the number of stored fragments
\* and the number of stored embeddings as they were before the ingestion,
\* whether the fragment's embedding call succeeded or failed.
C13_IngestThenRemoveRestoresCounts ==
    (last.op = "remove" /\ last.before # NoCall) =>
        /\ Cardinality(ChunkKeys) = last.before.total_chunks
        /\ Len(embeddings) = last.before.total_embeddings

\* the round trip of a fragment whose embedding call succeeded, made on a
\* store that holds another fragment and its embedding
C13_Witness ==
    /\ last.op = "remove"
    /\ last.before # NoCall
    /\ last.ret = "True"
    /\ last.before.total_embeddings = 1
    /\ Len(embeddings) = 1

\* C27: ingesting an identifier that is stored already overwrites it: the
\* identifier then holds the embedding of the new content only, and if the
\* embedding call of this ingestion failed it holds no embedding at all,
\* so that no search returns it.
C27_ReingestOverwritesEmbedding ==
    last.op = "ingest" =>
        \A i \in 1..Len(last.batch) :
            IF last.oks[i]
            THEN /\ last.batch[i].chunk_id \in EmbKeys
                 /\ EmbVec(last.batch[i].chunk_id) = EmbedOf(last.batch[i].content)
            ELSE last.batch[i].chunk_id \notin EmbKeys

\* C28: a search, a lookup by identifier and a statistics call leave the
\* stored fragments, the stored embeddings and the dimension as they were,
\* whether the provider call of the search succeeded, failed or was never
\* made.
C28_ReadsLeaveStoreUnchanged ==
    [][last'.op \in {"search", "get", "stats"} =>
          UNCHANGED <<chunks, embeddings, dimension>>]_vars

\* a lookup that found its fragment in a store that holds an embedding too
C28_Witness ==
    /\ last.op = "get"
    /\ last.had
    /\ last.ret = chunks[last.id]
    /\ embeddings # <<>>

(***************************************************************************)
(* Properties of the calls made one at a time with a provider that does    *)
(* not keep to one length (SpecDim).                                       *)
(***************************************************************************)
\* C14: once the dimension of the store is set, an embedding of another
\* length is not inserted, so every stored embedding has the length that
\* is the store's dimension.
C14_StoredEmbeddingsHaveStoreDimension ==
    \A i \in 1..Len(embeddings) : dimension = <<Len(embeddings[i].vec)>>

\* C15: the dimension is unset as long as no embedding has been stored, the
\* first embedding stored sets it to its length, and no later ingest,
\* search or remove changes it; only clear may unset it.
C15_DimensionSetOnceByFirstEmbedding ==
    [][/\ dimension = None => embeddings = <<>>
       /\ (dimension = None /\ embeddings' = <<>>) => dimension' = None
       /\ (dimension = None /\ embeddings' # <<>>) =>
              dimension' = <<Len(embeddings'[1].vec)>>
       /\ (dimension # None /\ last'.op # "clear") => dimension' = dimension
      ]_vars

\* an ingest has stored an embedding of length 3 in a store whose dimension
\* an earlier embedding had set to 2
C15_Witness ==
    /\ last.op = "ingest"
    /\ dimension = <<2>>
    /\ \E i \in 1..Len(embeddings) : Len(embeddings[i].vec) = 3

(***************************************************************************)
(* Properties of the calls made one at a time with a provider that answers *)
(* with a zero vector (SpecZero).                                          *)
(***************************************************************************)
ZeroNorm(vec) == Dot(vec, vec) = 0

\* the identifiers whose stored embedding has a defined score against the
\* query that is at least th
DefinedMatches(query, th) ==
    {id \in EmbKeys :
        /\ ~ZeroNorm(EmbedOf(query))
        /\ ~ZeroNorm(EmbVec(id))
        /\ SignedSquare(QueryScore(query, id).num) * th[2] * th[2]
              >= SignedSquare(th[1]) * QueryScore(query, id).den2}

\* C24: a zero vector, stored or of the query, gives a score that is not
\* defined and counts as no match: the fragment is left out of the
\* results, search does not raise, and the fragments with a defined score
\* of at least the threshold are returned all the same.
C24_ZeroNormIsNoMatch ==
    (/\ last.op = "search"
     /\ last.called
     /\ ~last.failed
     /\ \/ ZeroNorm(EmbedOf(last.query))
        \/ \E id \in EmbKeys : ZeroNorm(EmbVec(id))) =>
        /\ last.error = "none"
        /\ \A id \in ResultIds(last.results) : ~ZeroNorm(EmbVec(id))
        /\ ZeroNorm(EmbedOf(last.query)) => last.results = <<>>
        /\ ResultIds(last.results) \subseteq DefinedMatches(last.query, last.threshold)
        /\ Len(last.results) =
              Min(last.top_k, Cardinality(DefinedMatches(last.query, last.threshold)))

\* a search at threshold -1 over a stored zero vector and a stored vector
\* that matches: only the second is returned
C24_Witness ==
    /\ last.op = "search"
    /\ last.threshold = <<-1, 1>>
    /\ last.top_k = 2
    /\ \E id \in EmbKeys : ZeroNorm(EmbVec(id))
    /\ Len(last.results) = 1

(***************************************************************************)
(* Properties of the splitting of a text (SpecChunk, SpecScan).            *)
(***************************************************************************)
\* the configurations the contract admits
ValidConfig(c) == c.chunk_size > c.chunk_overlap /\ c.chunk_overlap >= 0

\* the configurations whose overlap is at most 70% of the size, as it is
\* for the values __init__ sets
OverlapWithinSeventyPercent(c) ==
    ValidConfig(c) /\ 10 * c.chunk_overlap <= 7 * c.chunk_size

\* the positions of the text that the range of chunk c holds
RangeOf(c, len) == {p \in 0..(len - 1) : c.start_char <= p /\ p < c.end_char}

\* C16: for every text and every configuration with chunk_size >
\* chunk_overlap >= 0 the loop ends: after each chunk it emits, start is
\* beyond its value before, or the loop is ended.
C16_CursorAdvancesOrLoopEnds ==
    (chunker.pc = "loop" /\ ValidConfig(chunker) /\ chunker.chunks # <<>>) =>
        chunker.start > chunker.chunks[Len(chunker.chunks)].start_char

\* C17: a configuration with chunk_overlap >= chunk_size or chunk_overlap < 0
\* is refused with a configuration error before any chunk is produced; the
\* loop is never entered with it.
C17_LoopOnlyWithValidConfig ==
    chunker.pc \in {"loop", "done"} => ValidConfig(chunker)

\* C18, as the claim has it: with chunk_size 100 and chunk_overlap 20 the
\* loop makes at most L / (100 - 20) + 1 iterations on a text of length L.
C18_IterationsWithinHardCutBound ==
    chunker.pc \in {"scan", "scanned"} =>
        (chunker.chunk_size - chunker.chunk_overlap) * (chunker.iterations - 1)
            <= chunker.length

\* the least distance from one start to the next: a cut at a space, at the
\* first index beyond 70% of the window
BoundaryAdvance(c) == ((7 * c.chunk_size) \div 10) + 1 - c.chunk_overlap

\* C18: with chunk_size 100 and chunk_overlap 20 the loop ends by itself
\* after at most L / 51 + 1 iterations on a text of length L, 51 being the
\* least advance of start, made by a cut at a space just beyond 70% of the
\* window.
C18_IterationsWithinBoundaryBound ==
    chunker.pc \in {"scan", "scanned"} =>
        /\ BoundaryAdvance(chunker) = 51
        /\ BoundaryAdvance(chunker) * (chunker.iterations - 1) <= chunker.length
        /\ chunker.pc = "scan" => chunker.iterations < chunker.length

\* a text on which cuts at boundaries make the loop run four times, more
\* than L / 80 + 1
C18_Witness ==
    /\ chunker.pc = "scanned"
    /\ chunker.iterations = 4
    /\ 80 * 3 > chunker.length

\* the latest window of the scan ended before the end of the text
WindowCutBack ==
    /\ chunker.pc \in {"scan", "scanned"}
    /\ chunker.window # None
    /\ chunker.window.start + chunker.chunk_size < chunker.length

\* index lies in the last 30% of the window, the 70% mark included
InTrailingThirty(index, chunk_size) == 10 * index >= 7 * chunk_size

\* C21: when the window ends before the end of the text and a sentence
\* terminator lies in its last 30%, from offset 0.7 * chunk_size on, that
\* offset included, the cut is right after the right-most such terminator
\* and not at the end of the window.
C21_CutAfterLastTerminatorInTrailingThirty ==
    (WindowCutBack
     /\ InTrailingThirty(chunker.window.sentence_end, chunker.chunk_size)) =>
        chunker.window.end = chunker.window.start + chunker.window.sentence_end + 1

\* C26: when the window ends before the end of the text and no sentence
\* terminator lies in its last 30%, the cut is at the right-most space of
\* that region, the space left out of the range; with neither a terminator
\* nor a space there the cut is the end of the window.
C26_CutAtLastSpaceElseWindowEnd ==
    (WindowCutBack
     /\ ~InTrailingThirty(chunker.window.sentence_end, chunker.chunk_size)) =>
        IF InTrailingThirty(chunker.window.last_space, chunker.chunk_size)
        THEN chunker.window.end = chunker.window.start + chunker.window.last_space
        ELSE chunker.window.end = chunker.window.start + chunker.chunk_size

\* C19: for a text that is not empty, the ranges [start_char, end_char) of
\* the chunks cover every position of the text, and the chunks come in the
\* order of their start_char.
C19_ChunksCoverTextInOrder ==
    (chunker.pc = "done" /\ OverlapWithinSeventyPercent(chunker)) =>
        LET out == chunker.chunks
            len == Len(chunker.text)
        IN /\ \A p \in 0..(len - 1) : \E k \in 1..Len(out) : p \in RangeOf(out[k], len)
           /\ \A k \in 1..(Len(out) - 1) : out[k].start_char <= out[k + 1].start_char

\* a text split into three chunks or more, one of them cut at a space
C19_Witness ==
    /\ chunker.pc = "done"
    /\ OverlapWithinSeventyPercent(chunker)
    /\ Len(chunker.chunks) >= 3
    /\ \E k \in 1..Len(chunker.chunks) :
          chunker.chunks[k].end_char - chunker.chunks[k].start_char
              < chunker.chunk_size

\* C20: two chunks emitted one after the other share at most chunk_overlap
\* characters of the text.
C20_ConsecutiveChunksShareAtMostOverlap ==
    (chunker.pc \in {"loop", "done"} /\ OverlapWithinSeventyPercent(chunker)) =>
        \A k \in 1..(Len(chunker.chunks) - 1) :
            Cardinality(RangeOf(chunker.chunks[k], Len(chunker.text))
                        \cap RangeOf(chunker.chunks[k + 1], Len(chunker.text)))
                <= chunker.chunk_overlap

\* two chunks that share exactly the two characters of the overlap
C20_Witness ==
    /\ chunker.pc = "done"
    /\ chunker.chunk_overlap = 2
    /\ \E k \in 1..(Len(chunker.chunks) - 1) :
          Cardinality(RangeOf(chunker.chunks[k], Len(chunker.text))
                      \cap RangeOf(chunker.chunks[k + 1], Len(chunker.text))) = 2

\* C22: the chunk emitted as number i, counted from 0, carries chunk_number
\* i, the start of its window as start_char and its cut as end_char, and
\* the cut never lies beyond the text: 0 <= start_char < end_char <=
\* len(text) for every chunk.
C22_ChunkMetadataWithinText ==
    (chunker.pc \in {"loop", "done"} /\ OverlapWithinSeventyPercent(chunker)) =>
        \A k \in 1..Len(chunker.chunks) :
            /\ chunker.chunks[k].chunk_number = k - 1
            /\ 0 <= chunker.chunks[k].start_char
            /\ chunker.chunks[k].start_char < chunker.chunks[k].end_char
            /\ chunker.chunks[k].end_char <= Len(chunker.text)

\* C23: for a text that is not empty after strip(), every chunk has content
\* that is not empty, also where a window holds nothing but spaces and for
\* the last window after the step back by the overlap.
C23_EveryChunkHasContent ==
    (chunker.pc \in {"loop", "done"} /\ OverlapWithinSeventyPercent(chunker)) =>
        \A k \in 1..Len(chunker.chunks) : chunker.chunks[k].content # <<>>

(***************************************************************************)
(* Properties of the lookups by identifier (SpecLookup).                   *)
(***************************************************************************)
\* C25: an identifier the component does not know is a normal, negative
\* answer: get_chunk of an identifier that is not stored returns None,
\* remove_chunk of it returns False, clear_session of a session that was
\* never created returns False, and each of them leaves the stored
\* fragments, embeddings, dimension, sessions and messages as they were.
C25_UnknownIdentifierIsNegativeAnswer ==
    [][/\ (last'.op = "get" /\ ~last'.had) =>
              /\ last'.ret = None
              /\ UNCHANGED <<chunks, embeddings, dimension, chat>>
       /\ (last'.op = "remove" /\ ~last'.had) =>
              /\ last'.ret = "False"
              /\ UNCHANGED <<chunks, embeddings, dimension, chat>>
       /\ (last'.op = "clear_session" /\ ~last'.known) =>
              /\ last'.ret = "False"
              /\ UNCHANGED <<chunks, embeddings, dimension, chat>>]_vars

\* clear_session of a session that was never created, made while another
\* session holds a message and the store holds a fragment
C25_Witness ==
    /\ last.op = "clear_session"
    /\ ~last.known
    /\ last.ret = "False"
    /\ chat.messages # <<>>
    /\ ChunkKeys # {}

(***************************************************************************)
(* Properties of the chat service (SpecChat).                              *)
(***************************************************************************)
\* C29: every session that holds at least one stored message is reported
\* as existing by session_exists, also after a message was added to a
\* session that had been cleared.
C29_SessionWithMessagesExists ==
    \A session_id \in SessionIds :
        MessagesOf(chat.messages, session_id) # <<>> =>
            SessionExists(chat, session_id)

\* C30: clear_session returns True only if session_exists held for that
\* session just before the call (so a second call in a row returns False),
\* and after it returned True session_exists is false for the session and
\* the session holds no message.
C30_ClearSessionTrueOnlyIfExisted ==
    (last.op = "clear_session" /\ last.ret = "True") =>
        /\ last.existed
        /\ ~SessionExists(chat, last.id)
        /\ MessagesOf(chat.messages, last.id) = <<>>

(***************************************************************************)
(* Properties of the conversation context (SpecContext).                   *)
(***************************************************************************)
\* C32: get_context_for_llm returns at most max_context_messages (10)
\* entries; they are messages of the session asked for and of no other,
\* listed oldest first; every message of the session that is left out is
\* older than all that are returned, and none is left out while fewer than
\* 10 are returned.
C32_ContextIsLastTenOfSessionInOrder ==
    last.op = "get_context_for_llm" =>
        LET rows == last.rows
            mine == {i \in 1..Len(chat.messages) :
                        chat.messages[i].session_id = last.id}
            out  == mine \ {rows[i] : i \in 1..Len(rows)}
        IN /\ Len(last.ret) <= 10
           /\ Len(last.ret) = Len(rows)
           /\ \A i \in 1..Len(rows) :
                 /\ rows[i] \in mine
                 /\ last.ret[i].role = chat.messages[rows[i]].role
                 /\ last.ret[i].content = chat.messages[rows[i]].content
           /\ \A i, j \in 1..Len(rows) : i < j => rows[i] < rows[j]
           /\ \A o \in out : \A i \in 1..Len(rows) : o < rows[i]
           /\ out # {} => Len(rows) = 10

\* the context of a session of eleven messages, with a message of the
\* other session added between two of the ten that are returned
C32_Witness ==
    /\ last.op = "get_context_for_llm"
    /\ Len(last.rows) = 10
    /\ Len(RowsOf(chat.messages, last.id)) = 11
    /\ \E i \in 1..Len(chat.messages) :
          /\ chat.messages[i].session_id # last.id
          /\ last.rows[1] < i
          /\ i < last.rows[10]

(***************************************************************************)
(* Properties of POST /message (SpecSend).                                 *)
(***************************************************************************)
\* C31: in the conversation send_message hands to the model, the current
\* user message appears exactly once: the history taken from
\* get_context_for_llm holds only rows from before the request, and the
\* message is the one turn added after the history, the final user turn.
C31_CurrentMessageHandedOverOnce ==
    last.op = "send_message" =>
        /\ \A i \in 1..Len(last.rows) : last.rows[i] # last.user_row
        /\ Len(last.contents) = Len(last.rows) + 1
        /\ last.contents[Len(last.contents)].role = "user"
        /\ last.contents[Len(last.contents)].text = last.message

(***************************************************************************)
(* Properties of concurrent calls (SpecConc).                              *)
(***************************************************************************)
\* C2: under every interleaving of concurrent ingest, search, remove and
\* clear calls that are suspended only at their provider calls, the
\* embedding keys are a subset of the content keys in every reachable
\* state, and no search looks up the content of an indexed embedding whose
\* content entry is absent.
C2_ConcurrentCallsKeepIndexConsistent ==
    /\ EmbKeys \subseteq ChunkKeys
    /\ last.op = "search" => last.error # "KeyError"

====
